---- MODULE Spec2Model ----
(***************************************************************************)
(* The controller class AiZynthFinder of aizynthfinder/aizynthfinder.py:   *)
(* its fields, its public operations and the budgeted loop of tree_search,  *)
(* with the collaborators (stock, policies, tree, analysis) as the          *)
(* nondeterministic environment the controller calls into.                  *)
(***************************************************************************)
EXTENDS Integers, Sequences, FiniteSets, TLC

VARIABLES
    config,             \* self.config: the Configuration record
    target,             \* self._target_mol (None or a molecule)
    tree,               \* self.tree (None or a SearchTree)
    analysis,           \* self.analysis (None or a TreeAnalysis)
    routes,             \* self.routes (None or a RouteCollection)
    search_stats,       \* self.search_stats: the keys present and their values
    stock_selection,    \* self.stock.selection
    stock_exclusion,    \* the stock's exclusion list
    expansion_selection,\* self.expansion_policy.selection
    filter_selection,   \* self.filter_policy.selection (empty: deselected)
    pc,                 \* position of the controller ("idle": no call in progress)
    caller,             \* who called tree_search: "api", or run_from_json
                        \* ("json", or "replay" when it replays a response)
    score_trees,        \* run_from_json: params.get("score_trees", False)
    i,                  \* tree_search local i
    time_past,          \* tree_search local time_past
    elapsed,            \* time.time() - time0, the wall clock of the running search
    leaf,               \* tree_search local leaf
    child,              \* tree_search local child
    show_progress,      \* tree_search parameter show_progress
    pbar,               \* tree_search local pbar (the tqdm progress bar)
    last,               \* the last call made by the user and how it ended
    prepares,           \* how many prepare_tree calls in a row have just returned
    response            \* the "request" record of the response the user holds:
                        \* that of the last run_from_json call; none once a new
                        \* request is made, until that call returns

vars == << config, target, tree, analysis, routes, search_stats,
           stock_selection, stock_exclusion, expansion_selection,
           filter_selection, pc, caller, score_trees, i, time_past, elapsed,
           leaf, child, show_progress, pbar, last, prepares, response >>

-----------------------------------------------------------------------------
(* Bounds of the model *)

MaxIterLimit == 2       \* largest config.iteration_limit
MaxTimeLimit == 2       \* largest config.time_limit (in clock ticks)
MaxClock == 3           \* the clock of one search stops advancing here
MaxDepth == 2           \* depth of the search tree below the selected leaf
MaxPrepares == 2        \* consecutive prepare_tree calls that are told apart

None == "None"

Targets == {"CCO", "CCN"}
IterLimits == {-1} \cup (0..MaxIterLimit)
TimeLimits == 0..MaxTimeLimit

-----------------------------------------------------------------------------
(* Collaborators *)

\* The compounds of each stock inventory (Stock membership test).
StockContents(name) == IF name = "zinc" THEN {"CCO"} ELSE {}

\* `mol in self.stock`: in one of the selected inventories and not excluded.
InStock(mol, selection, exclusion) ==
    /\ mol \notin exclusion
    /\ \E k \in 1..Len(selection) : mol \in StockContents(selection[k])

\* The names the expansion policy collection knows.
PolicyNames == {"uspto", "ringbreaker"}

\* A node of the search tree as the loop sees it: is_terminal(), state.is_solved
\* and its depth below the root. A solved state is terminal and so is a node at
\* the depth cutoff.
Leaves ==
    { l \in [terminal : BOOLEAN, solved : BOOLEAN, depth : 0..MaxDepth] :
        /\ l.solved => l.terminal
        /\ l.depth = MaxDepth => l.terminal }

NoLeaf == [terminal |-> FALSE, solved |-> FALSE, depth |-> -1]

\* A wall-clock step of a blocking collaborator call: the clock of the search
\* advances by 0 or 1 tick.
Ticks == IF elapsed < MaxClock THEN {0, 1} ELSE {0}

-----------------------------------------------------------------------------
(* State after construction *)

\* search_stats = {}
EmptyStats ==
    [keys |-> {}, returned_first |-> FALSE, iterations |-> 0, time |-> 0]

\* search_stats = {"returned_first": False, "iterations": 0}
FreshStats ==
    [keys |-> {"returned_first", "iterations"}, returned_first |-> FALSE,
     iterations |-> 0, time |-> 0]

\* The configurations a controller is constructed with in the model of the
\* search loop: every budget setting.
Configurations ==
    [C : {1}, max_transforms : {1}, cutoff_cumulative : {1},
     cutoff_number : {1}, filter_cutoff : {1},
     return_first : BOOLEAN, time_limit : TimeLimits,
     iteration_limit : IterLimits, exclude_target_from_stock : {TRUE}]

\* Configuration(): the defaults.
DefaultConfiguration ==
    [C |-> 1, max_transforms |-> 1, cutoff_cumulative |-> 1,
     cutoff_number |-> 1, filter_cutoff |-> 1, return_first |-> FALSE,
     time_limit |-> 1, iteration_limit |-> 1,
     exclude_target_from_stock |-> TRUE]

\* self.tree = None; a SearchTree is known by its root.
NoTree == [root |-> None]

\* self.analysis = None and self.routes = None. An analysis or a route
\* collection that exists holds a reference to the tree it was built from:
\* `of` says whether that is the object self.tree holds now ("current"), a
\* tree the controller has dropped since ("old"), or None ("none").
NoAnalysis == [built |-> FALSE, of |-> "none"]
NoRoutes == [built |-> FALSE, of |-> "none"]

\* What a reference to self.tree's object becomes when self.tree is rebound.
Superseded(x) == IF x.of = "current" THEN [x EXCEPT !.of = "old"] ELSE x

\* The local child of tree_search: not yet assigned, None, or a node.
UnsetChild == [kind |-> "unset", node |-> NoLeaf]
NoChild == [kind |-> "none", node |-> NoLeaf]

\* No progress bar (show_progress false), and tqdm(total=iteration_limit).
NoPbar == [made |-> FALSE, total |-> 0, n |-> 0, closed |-> FALSE]

NoCall == [op |-> "init", outcome |-> "ok"]

\* The value a request or a response holds under the key "filter": one name
\* or a list of names.
NameValue(n) == [kind |-> "name", name |-> n, names |-> << >>]
ListValue(ns) == [kind |-> "list", name |-> "", names |-> ns]

\* No response has been returned yet: a record without keys.
NoResponse ==
    [keys |-> {}, stocks |-> << >>, policy |-> "", policies |-> << >>,
     filter |-> ListValue(<< >>), C |-> 0, max_transforms |-> 0,
     cutoff_cumulative |-> 0, cutoff_number |-> 0, smiles |-> "",
     return_first |-> FALSE, time_limit |-> 0, iteration_limit |-> 0,
     exclude_target_from_stock |-> FALSE, filter_cutoff |-> 0,
     score_trees |-> FALSE]

Constructed ==
    /\ target = None
    /\ tree = NoTree
    /\ analysis = NoAnalysis
    /\ routes = NoRoutes
    /\ search_stats = EmptyStats
    /\ stock_selection = << >>
    /\ stock_exclusion = {}
    /\ expansion_selection = << >>
    /\ filter_selection = << >>
    /\ pc = "idle"
    /\ caller = "api"
    /\ score_trees = FALSE
    /\ i = 1
    /\ time_past = 0
    /\ elapsed = 0
    /\ leaf = NoLeaf
    /\ child = UnsetChild
    /\ show_progress = FALSE
    /\ pbar = NoPbar
    /\ last = NoCall
    /\ prepares = 0
    /\ response = NoResponse

Init ==
    /\ config = DefaultConfiguration
    /\ Constructed

SearchInit ==
    /\ config \in Configurations
    /\ Constructed

-----------------------------------------------------------------------------
(* The simple public operations; each is one call made while no other call  *)
(* is in progress.                                                          *)

Call(op, outcome) == [op |-> op, outcome |-> outcome]

\* The name under which a call of run_from_json is recorded: a call with a
\* request of the user, or a replay of the last response.
EntryOp(who) == IF who = "replay" THEN "replay" ELSE "run_from_json"

searchLocals == << i, time_past, elapsed, leaf, child, show_progress, pbar >>
selections == << stock_selection, expansion_selection, filter_selection >>

\* The target_mol setter without line 91.
SetTarget_KeepsTree(mol) ==
    /\ pc = "idle"
    /\ target' = mol
    /\ last' = Call("set_target", "ok")
    /\ UNCHANGED << config, tree, analysis, routes, search_stats, selections,
                    stock_exclusion, pc, caller, score_trees, searchLocals >>
    /\ prepares' = 0
    /\ UNCHANGED response

\* target_mol setter (and target_smiles setter, which builds the molecule and
\* assigns it): the tree is dropped and the target replaced. The analysis and
\* the routes are not touched: what they were built from is no longer
\* self.tree.
SetTarget(mol) ==
    /\ pc = "idle"
    /\ tree' = NoTree
    /\ analysis' = Superseded(analysis)
    /\ routes' = Superseded(routes)
    /\ target' = mol
    /\ last' = Call("set_target", "ok")
    /\ UNCHANGED << config, search_stats, selections,
                    stock_exclusion, pc, caller, score_trees, searchLocals >>
    /\ prepares' = 0
    /\ UNCHANGED response

\* Lines 121-124 without the reset of line 121.
PreparedExclusion_NoReset(cfg, mol, selection) ==
    stock_exclusion \cup
        (IF cfg.exclude_target_from_stock /\ InStock(mol, selection, {})
         THEN {mol}
         ELSE {})

\* Lines 121-124 with the membership test of line 122 made before the reset.
PreparedExclusion_TestFirst(cfg, mol, selection) ==
    IF cfg.exclude_target_from_stock /\ InStock(mol, selection, stock_exclusion)
    THEN {mol}
    ELSE {}

\* prepare_tree, lines 121-124: the exclusion list after the reset and the
\* conditional exclusion of the target.
PreparedExclusion(cfg, mol, selection) ==
    IF cfg.exclude_target_from_stock /\ InStock(mol, selection, {})
    THEN {mol}
    ELSE {}

\* prepare_tree, line 127: SearchTree(root_smiles=self.target_smiles, ...).
NewTree(mol) == [root |-> mol]

\* prepare_tree raises at target_smiles when no target was ever assigned.
PrepareRaises(mol) == mol = None

\* The count of consecutive prepare_tree calls after one more has returned.
OneMorePrepare == IF prepares < MaxPrepares THEN prepares + 1 ELSE prepares

\* prepare_tree without lines 128-129.
PrepareTree_KeepsResults ==
    /\ pc = "idle"
    /\ IF PrepareRaises(target)
       THEN /\ stock_exclusion' = {}
            /\ last' = Call("prepare_tree", "AttributeError")
            /\ prepares' = 0
            /\ UNCHANGED << tree, analysis, routes >>
       ELSE /\ stock_exclusion' =
                   PreparedExclusion(config, target, stock_selection)
            /\ tree' = NewTree(target)
            /\ analysis' = Superseded(analysis)
            /\ routes' = Superseded(routes)
            /\ last' = Call("prepare_tree", "ok")
            /\ prepares' = OneMorePrepare
    /\ UNCHANGED << config, target, search_stats, selections, pc, caller,
                    score_trees, searchLocals, response >>

\* prepare_tree called by the user.
PrepareTree ==
    /\ pc = "idle"
    /\ IF PrepareRaises(target)
       THEN /\ stock_exclusion' = {}
            /\ last' = Call("prepare_tree", "AttributeError")
            /\ prepares' = 0
            /\ UNCHANGED << tree, analysis, routes >>
       ELSE /\ stock_exclusion' =
                   PreparedExclusion(config, target, stock_selection)
            /\ tree' = NewTree(target)
            /\ analysis' = NoAnalysis
            /\ routes' = NoRoutes
            /\ last' = Call("prepare_tree", "ok")
            /\ prepares' = OneMorePrepare
    /\ UNCHANGED << config, target, search_stats, selections, pc, caller,
                    score_trees, searchLocals, response >>

\* TreeAnalysis(self.tree, ...) and RouteCollection.from_analysis(analysis, ..).
AnalysisOf(t) ==
    [built |-> TRUE, of |-> IF t = NoTree THEN "none" ELSE "current"]
RoutesOf(a) == [built |-> TRUE, of |-> a.of]

\* How the two constructor calls of build_routes can end.
BuildOutcomes == {"ok", "analysis_raises", "routes_raise"}

\* build_routes, lines 106-107, for one outcome of the collaborators: the
\* analysis is assigned before the route collection is built.
BuildRoutesEffect(outcome) ==
    /\ analysis' = IF outcome = "analysis_raises"
                   THEN analysis
                   ELSE AnalysisOf(tree)
    /\ routes' = IF outcome = "ok" THEN RoutesOf(AnalysisOf(tree)) ELSE routes

\* build_routes called by the user.
BuildRoutes ==
    /\ pc = "idle"
    /\ \E outcome \in BuildOutcomes :
         /\ BuildRoutesEffect(outcome)
         /\ last' = Call("build_routes", IF outcome = "ok" THEN "ok" ELSE "error")
    /\ UNCHANGED << config, target, tree, search_stats, selections,
                    stock_exclusion, pc, caller, score_trees, searchLocals >>
    /\ prepares' = 0
    /\ UNCHANGED response

\* extract_statistics without the test of line 112.
StatisticsResult_NoTest ==
    IF target = None THEN "AttributeError"
    ELSE IF "time" \notin search_stats.keys THEN "KeyError"
    ELSE "stats"

\* extract_statistics: what the call returns or raises.
StatisticsResult ==
    IF ~analysis.built THEN "empty"
    ELSE IF target = None THEN "AttributeError"
    ELSE IF "time" \notin search_stats.keys THEN "KeyError"
    ELSE "stats"

ExtractStatistics ==
    /\ pc = "idle"
    /\ last' = Call("extract_statistics", StatisticsResult)
    /\ UNCHANGED << config, target, tree, analysis, routes,
                    search_stats, selections, stock_exclusion, pc, caller,
                    score_trees, searchLocals >>
    /\ prepares' = 0
    /\ UNCHANGED response

-----------------------------------------------------------------------------
(* tree_search *)

\* Lines 183-191 for a clock reading d at line 188: the statistics are reset
\* and the locals set up; control is at the loop test of line 193.
EnterSearch(progress, d) ==
    /\ search_stats' = FreshStats
    /\ i' = 1
    /\ elapsed' = d
    /\ time_past' = d
    /\ leaf' = NoLeaf
    /\ child' = UnsetChild
    /\ show_progress' = progress
    /\ pbar' = IF progress
               THEN [made |-> TRUE, total |-> config'.iteration_limit,
                     n |-> 0, closed |-> FALSE]
               ELSE NoPbar
    /\ pc' = "loop_test"

\* tree_search called by the user, lines 181-191.
TreeSearch(progress) ==
    /\ pc = "idle"
    /\ UNCHANGED << config, target, selections, score_trees >>
    /\ IF tree = NoTree /\ PrepareRaises(target)
       THEN /\ stock_exclusion' = {}
            /\ last' = Call("tree_search", "AttributeError")
            /\ UNCHANGED << tree, analysis, routes, search_stats,
                            pc, caller, searchLocals >>
       ELSE /\ IF tree = NoTree
               THEN /\ stock_exclusion' =
                           PreparedExclusion(config, target, stock_selection)
                    /\ tree' = NewTree(target)
                    /\ analysis' = NoAnalysis
                    /\ routes' = NoRoutes
               ELSE UNCHANGED << stock_exclusion, tree, analysis,
                                 routes >>
            /\ caller' = "api"
            /\ last' = Call("tree_search", "running")
            /\ \E d \in {0, 1} : EnterSearch(progress, d)
    /\ prepares' = 0
    /\ UNCHANGED response

\* Line 193 with the iteration bound off by one.
LoopCond_OneMore ==
    time_past < config.time_limit /\ i <= config.iteration_limit + 1

\* Line 193 with a strict iteration bound.
LoopCond_OneLess ==
    time_past < config.time_limit /\ i < config.iteration_limit

\* Line 193 with an inclusive time bound.
LoopCond_TimeInclusive ==
    time_past <= config.time_limit /\ i <= config.iteration_limit

\* The loop condition of line 193.
LoopCond == time_past < config.time_limit /\ i <= config.iteration_limit

\* Lines 193-196: the loop test; when it holds the progress bar is advanced
\* and the iteration counted.
TSLoopTest ==
    /\ pc = "loop_test"
    /\ IF LoopCond
       THEN /\ pbar' = IF show_progress THEN [pbar EXCEPT !.n = @ + 1] ELSE pbar
            /\ search_stats' = [search_stats EXCEPT !.iterations = @ + 1]
            /\ pc' = "select"
       ELSE /\ pc' = "exit_cond"
            /\ UNCHANGED << pbar, search_stats >>
    /\ UNCHANGED << config, target, tree, analysis, routes, selections,
                    stock_exclusion, caller, score_trees, i, time_past,
                    elapsed, leaf, child, show_progress, last >>
    /\ UNCHANGED << prepares, response >>

\* Where the descent goes after the while test of line 200 on node l.
AfterTerminalTest(l) == IF l.terminal THEN "backprop" ELSE "promising"

\* Lines 198-200: select_leaf(), leaf.expand() and the first is_terminal().
TSSelect ==
    /\ pc = "select"
    /\ \E l \in Leaves, d \in Ticks :
         /\ leaf' = l
         /\ elapsed' = elapsed + d
         /\ pc' = AfterTerminalTest(l)
    /\ UNCHANGED << config, target, tree, analysis, routes,
                    search_stats, selections, stock_exclusion, caller,
                    score_trees, i, time_past, child, show_progress, pbar,
                    last >>
    /\ UNCHANGED << prepares, response >>

\* The nodes promising_child() of node l can return.
ChildrenOf(l) == { c \in Leaves : c.depth = l.depth + 1 }

\* What promising_child() of node l can do: return a child, or return None;
\* when it returns None the tree may mark the node as not expandable, which
\* makes it terminal, or leave it as it is. Each outcome is the value returned
\* and the node after the call.
PromisingChild(l) ==
    { [child |-> [kind |-> "node", node |-> c], leaf |-> l] : c \in ChildrenOf(l) }
    \cup
    { [child |-> NoChild, leaf |-> [l EXCEPT !.terminal = t]] : t \in BOOLEAN }

\* Line 201: child = leaf.promising_child().
TSPromising ==
    /\ pc = "promising"
    /\ \E d \in Ticks, out \in PromisingChild(leaf) :
         /\ elapsed' = elapsed + d
         /\ child' = out.child
         /\ leaf' = out.leaf
    /\ pc' = "if_child"
    /\ UNCHANGED << config, target, tree, analysis, routes,
                    search_stats, selections, stock_exclusion, caller,
                    score_trees, i, time_past, show_progress, pbar, last >>
    /\ UNCHANGED << prepares, response >>

\* Lines 202-204 and the while test of line 200 that follows them: with a child
\* the cursor moves to it (after child.expand()), without one it stays.
TSIfChild ==
    /\ pc = "if_child"
    /\ leaf' = IF child.kind = "node" THEN child.node ELSE leaf
    /\ pc' = AfterTerminalTest(leaf')
    /\ UNCHANGED << config, target, tree, analysis, routes,
                    search_stats, selections, stock_exclusion, caller,
                    score_trees, i, time_past, elapsed, child, show_progress,
                    pbar, last >>
    /\ UNCHANGED << prepares, response >>

\* Line 205: self.tree.backpropagate(leaf, leaf.state.score).
TSBackprop ==
    /\ pc = "backprop"
    /\ \E d \in Ticks : elapsed' = elapsed + d
    /\ pc' = "check_first"
    /\ UNCHANGED << config, target, tree, analysis, routes,
                    search_stats, selections, stock_exclusion, caller,
                    score_trees, i, time_past, leaf, child, show_progress,
                    pbar, last >>
    /\ UNCHANGED << prepares, response >>

\* Line 206 without the test of return_first.
FirstSolved_AnySolved == leaf.solved

\* The condition of line 206.
FirstSolved == config.return_first /\ leaf.solved

\* Lines 206-209: the early return on the first solved route.
TSCheckFirst ==
    /\ pc = "check_first"
    /\ IF FirstSolved
       THEN /\ search_stats' = [search_stats EXCEPT !.returned_first = TRUE]
            /\ pc' = "exit_break"
       ELSE /\ pc' = "next"
            /\ UNCHANGED search_stats
    /\ UNCHANGED << config, target, tree, analysis, routes, selections,
                    stock_exclusion, caller, score_trees, i, time_past,
                    elapsed, leaf, child, show_progress, pbar, last >>
    /\ UNCHANGED << prepares, response >>

\* Lines 210-211: the end of an iteration that did not break.
TSNext ==
    /\ pc = "next"
    /\ i' = i + 1
    /\ time_past' = elapsed
    /\ pc' = "loop_test"
    /\ UNCHANGED << config, target, tree, analysis, routes,
                    search_stats, selections, stock_exclusion, caller,
                    score_trees, elapsed, leaf, child, show_progress, pbar,
                    last >>
    /\ UNCHANGED << prepares, response >>

ExitPcs == {"exit_cond", "exit_break"}

\* tree_search is left, by return or by an error: its locals are gone.
LeaveSearch ==
    /\ i' = 1
    /\ time_past' = 0
    /\ elapsed' = 0
    /\ leaf' = NoLeaf
    /\ child' = UnsetChild
    /\ show_progress' = FALSE
    /\ pbar' = NoPbar

\* Line 216: self.search_stats["time"] = time_past.
RecordedTime == time_past

\* Lines 213-214: the progress bar, when there is one, is closed.
TSClose ==
    /\ pc \in ExitPcs
    /\ show_progress /\ ~pbar.closed
    /\ pbar' = [pbar EXCEPT !.closed = TRUE]
    /\ UNCHANGED << config, target, tree, analysis, routes, search_stats,
                    selections, stock_exclusion, pc, caller, score_trees, i,
                    time_past, elapsed, leaf, child, show_progress, last >>
    /\ UNCHANGED << prepares, response >>

\* Lines 215-217 reached without lines 213-214.
TSFinish_SkipsClose ==
    /\ pc \in ExitPcs
    /\ LeaveSearch
    /\ search_stats' =
           [search_stats EXCEPT !.keys = @ \cup {"time"}, !.time = RecordedTime]
    /\ IF caller # "api"
       THEN /\ pc' = "rfj_build"
            /\ UNCHANGED last
       ELSE /\ pc' = "idle"
            /\ last' = Call("tree_search", "ok")
    /\ UNCHANGED << config, target, tree, analysis, routes, selections,
                    stock_exclusion, caller, score_trees >>
    /\ UNCHANGED << prepares, response >>

\* Lines 215-217: the time is recorded and returned. A search started by
\* run_from_json goes on with line 159.
TSFinish ==
    /\ pc \in ExitPcs
    /\ show_progress => pbar.closed
    /\ LeaveSearch
    /\ search_stats' =
           [search_stats EXCEPT !.keys = @ \cup {"time"}, !.time = RecordedTime]
    /\ IF caller # "api"
       THEN /\ pc' = "rfj_build"
            /\ UNCHANGED last
       ELSE /\ pc' = "idle"
            /\ last' = Call("tree_search", "ok")
    /\ UNCHANGED << config, target, tree, analysis, routes, selections,
                    stock_exclusion, caller, score_trees >>
    /\ UNCHANGED << prepares, response >>

\* The positions at which a call into the tree is made.
TreeCallPcs == {"select", "promising", "if_child", "backprop"}

\* A call into the tree raises: the error leaves tree_search, and run_from_json
\* when it is the caller, at once.
TSAbort ==
    /\ pc \in TreeCallPcs
    /\ pc' = "idle"
    /\ last' = Call(IF caller = "api" THEN "tree_search" ELSE EntryOp(caller),
                    "TreeError")
    /\ LeaveSearch
    /\ caller' = "api"
    /\ score_trees' = FALSE
    /\ UNCHANGED << config, target, tree, analysis, routes, search_stats,
                    selections, stock_exclusion >>
    /\ UNCHANGED << prepares, response >>

-----------------------------------------------------------------------------
(* run_from_json *)

\* The keys run_from_json reads with params[...]; policy, policies, filter and
\* score_trees are read with get or tested with in.
CoreKeys == {"stocks", "C", "max_transforms", "cutoff_cumulative",
             "cutoff_number", "smiles", "return_first", "time_limit",
             "iteration_limit", "exclude_target_from_stock", "filter_cutoff"}

\* A request: the keys it holds and the value of each (the value of a key it
\* does not hold is never read).
Request(keys, smiles, rf, tl, il, ex, pols) ==
    [keys |-> keys, stocks |-> << "zinc" >>, policy |-> pols[1],
     policies |-> pols, filter |-> NameValue("quick"), C |-> 1,
     max_transforms |-> 1,
     cutoff_cumulative |-> 1, cutoff_number |-> 1, smiles |-> smiles,
     return_first |-> rf, time_limit |-> tl, iteration_limit |-> il,
     exclude_target_from_stock |-> ex, filter_cutoff |-> 1,
     score_trees |-> TRUE]

\* The ways a request names its expansion policies: the key and the value.
PolicyForms ==
    { << {"policy"}, << "uspto" >> >>,
      << {"policies"}, << "uspto" >> >>,
      << {"policies"}, << "uspto", "ringbreaker" >> >> }

\* Requests that hold every required key: each policy form with and without
\* the optional keys, and each combination of target and budget settings.
CompleteRequests ==
    { Request(CoreKeys \cup pf[1] \cup ok, "CCO", TRUE, 1, 1, TRUE, pf[2]) :
        pf \in PolicyForms,
        ok \in {{}, {"filter"}, {"filter", "score_trees"}} }
    \cup
    { Request(CoreKeys \cup {"policy"}, smiles, rf, tl, 1, ex, << "uspto" >>) :
        smiles \in Targets, rf \in BOOLEAN, tl \in {0, 1}, ex \in BOOLEAN }

\* Requests that lack one required key, or both policy keys.
DefectiveRequests ==
    { Request((CoreKeys \ {k}) \cup {"policy"}, "CCO", TRUE, 1, 1, TRUE,
              << "uspto" >>) : k \in CoreKeys }
    \cup { Request(CoreKeys, "CCO", TRUE, 1, 1, TRUE, << "uspto" >>) }

Requests == CompleteRequests \cup DefectiveRequests

\* The statements of lines 140-155 in order, each by the key it reads.
Statements ==
    << "stocks", "policy", "filter", "C", "max_transforms",
       "cutoff_cumulative", "cutoff_number", "smiles", "return_first",
       "time_limit", "iteration_limit", "exclude_target_from_stock",
       "filter_cutoff" >>

\* Line 141: params.get("policy", params.get("policies", "")), as the
\* selection the policy collection makes of it (a name selects itself).
PolicyArgument(r) ==
    IF "policy" \in r.keys THEN << r.policy >>
    ELSE IF "policies" \in r.keys THEN r.policies
    ELSE << "" >>

\* The selection names only policies the collection knows.
KnownPolicies(sel) == \A k \in 1..Len(sel) : sel[k] \in PolicyNames

\* Whether statement k raises: a params[...] read of an absent key (KeyError),
\* or the policy collection refusing an unknown name. `accept` is the choice of
\* the collection about a name it does not know.
StatementRaises(r, k, accept) ==
    IF Statements[k] = "policy"
    THEN ~KnownPolicies(PolicyArgument(r)) /\ ~accept
    ELSE IF Statements[k] = "filter"
    THEN FALSE
    ELSE Statements[k] \notin r.keys

\* The first statement of lines 140-155 that raises; 0 when none does.
FailAt(r, accept) ==
    IF \E k \in 1..Len(Statements) : StatementRaises(r, k, accept)
    THEN CHOOSE k \in 1..Len(Statements) :
           /\ StatementRaises(r, k, accept)
           /\ \A j \in 1..(k - 1) : ~StatementRaises(r, j, accept)
    ELSE 0

\* Statement `key` was executed when the first failure is at f.
Executed(key, f) ==
    \/ f = 0
    \/ \E k \in 1..(f - 1) : Statements[k] = key

\* The error run_from_json raises when statement f raises.
ResolveError(f) == IF Statements[f] = "policy" THEN "PolicyError" ELSE "KeyError"

\* The value of configuration field `key` after lines 146-155.
Resolved(r, key, f) == IF Executed(key, f) THEN r[key] ELSE config[key]

ResolvedConfig(r, f) ==
    [C |-> Resolved(r, "C", f),
     max_transforms |-> Resolved(r, "max_transforms", f),
     cutoff_cumulative |-> Resolved(r, "cutoff_cumulative", f),
     cutoff_number |-> Resolved(r, "cutoff_number", f),
     filter_cutoff |-> Resolved(r, "filter_cutoff", f),
     return_first |-> Resolved(r, "return_first", f),
     time_limit |-> Resolved(r, "time_limit", f),
     iteration_limit |-> Resolved(r, "iteration_limit", f),
     exclude_target_from_stock |->
         Resolved(r, "exclude_target_from_stock", f)]

\* filter_policy.select(value): a name selects itself, a list selects its
\* names in order.
Selected(v) == IF v.kind = "name" THEN << v.name >> ELSE v.names

\* Lines 142-145: the filter is selected when the request names one and
\* deselected otherwise.
FilterArgument(r) == IF "filter" \in r.keys THEN Selected(r.filter) ELSE << >>

\* Lines 140-145 and 150: the selections and the target up to the failure.
ResolveSelections(r, f) ==
    /\ stock_selection' =
           IF Executed("stocks", f) THEN r.stocks ELSE stock_selection
    /\ expansion_selection' =
           IF Executed("policy", f) THEN PolicyArgument(r)
           ELSE expansion_selection
    /\ filter_selection' =
           IF Executed("filter", f) THEN FilterArgument(r) ELSE filter_selection
    /\ target' = IF Executed("smiles", f) THEN r.smiles ELSE target

\* run_from_json called with request r, lines 140-158 up to the loop of
\* tree_search; a request that fails part-way keeps what was assigned before
\* the failure.
RunWith(r, who) ==
    /\ pc = "idle"
    /\ prepares' = 0
    /\ response' = IF who = "replay" THEN response ELSE NoResponse
    /\ \E accept \in IF KnownPolicies(PolicyArgument(r)) THEN {TRUE} ELSE BOOLEAN :
         LET f == FailAt(r, accept) IN
           /\ ResolveSelections(r, f)
           /\ config' = ResolvedConfig(r, f)
           /\ IF f # 0
              THEN /\ tree' = IF Executed("smiles", f) THEN NoTree ELSE tree
                   /\ analysis' = IF Executed("smiles", f)
                                  THEN Superseded(analysis) ELSE analysis
                   /\ routes' = IF Executed("smiles", f)
                                THEN Superseded(routes) ELSE routes
                   /\ last' = Call(EntryOp(who), ResolveError(f))
                   /\ UNCHANGED << search_stats,
                                   stock_exclusion, pc, caller, score_trees,
                                   searchLocals >>
              ELSE /\ stock_exclusion' =
                          PreparedExclusion(config', target', stock_selection')
                   /\ tree' = NewTree(target')
                   /\ analysis' = NoAnalysis
                   /\ routes' = NoRoutes
                   /\ caller' = who
                   /\ score_trees' = ("score_trees" \in r.keys /\ r.score_trees)
                   /\ last' = Call(EntryOp(who), "running")
                   /\ \E d \in {0, 1} : EnterSearch(FALSE, d)

\* run_from_json called by the user with a request of its own.
RunFromJson(r) == RunWith(r, "json")

\* run_from_json called by the user with the "request" record of the last
\* response.
Replay ==
    /\ response # NoResponse
    /\ RunWith(response, "replay")

\* Line 223: exactly one expansion policy is selected.
SinglePolicy(sel) == Len(sel) = 1

\* Line 244 with the filter never written.
FilterEmitted_Never(sel) == FALSE

\* Line 244: `if self.filter_policy.selection`, true of a selection that is
\* not empty.
FilterEmitted(sel) == sel # << >>

\* Lines 223-232 with the plural key for every selection.
SettingsKeys_AlwaysPlural ==
    CoreKeys \cup {"policies"}
        \cup (IF FilterEmitted(filter_selection) THEN {"filter"} ELSE {})

\* Lines 223-245: the keys of the record _get_settings returns.
SettingsKeys ==
    CoreKeys
        \cup (IF SinglePolicy(expansion_selection) THEN {"policy"}
              ELSE {"policies"})
        \cup (IF FilterEmitted(filter_selection) THEN {"filter"} ELSE {})

\* _get_settings, lines 219-246: the record of the current settings, as a
\* request (a key the record does not hold has the value NoResponse has).
GetSettings ==
    [keys |-> SettingsKeys,
     stocks |-> stock_selection,
     policy |-> IF "policy" \in SettingsKeys
                THEN expansion_selection[1] ELSE NoResponse.policy,
     policies |-> IF "policies" \in SettingsKeys
                  THEN expansion_selection ELSE NoResponse.policies,
     filter |-> IF "filter" \in SettingsKeys
                THEN ListValue(filter_selection) ELSE NoResponse.filter,
     C |-> config.C,
     max_transforms |-> config.max_transforms,
     cutoff_cumulative |-> config.cutoff_cumulative,
     cutoff_number |-> config.cutoff_number,
     smiles |-> target,
     return_first |-> config.return_first,
     time_limit |-> config.time_limit,
     iteration_limit |-> config.iteration_limit,
     exclude_target_from_stock |-> config.exclude_target_from_stock,
     filter_cutoff |-> config.filter_cutoff,
     score_trees |-> NoResponse.score_trees]

\* Lines 159-170: build_routes, the optional scoring and the response, which
\* is returned only when nothing raised. A replay that raises leaves the user
\* with the response it replayed.
RFJBuild ==
    /\ pc = "rfj_build"
    /\ \E outcome \in BuildOutcomes :
         /\ BuildRoutesEffect(outcome)
         /\ last' = Call(EntryOp(caller),
                         IF outcome = "ok" THEN "ok" ELSE "error")
         /\ response' = IF outcome = "ok" THEN GetSettings ELSE response
    /\ pc' = "idle"
    /\ caller' = "api"
    /\ score_trees' = FALSE
    /\ UNCHANGED << config, target, tree, search_stats, selections,
                    stock_exclusion, searchLocals, prepares >>

-----------------------------------------------------------------------------

Next ==
    \/ \E r \in Requests : RunFromJson(r)
    \/ Replay
    \/ RFJBuild
    \/ \E mol \in Targets : SetTarget(mol)
    \/ PrepareTree
    \/ BuildRoutes
    \/ ExtractStatistics
    \/ \E progress \in BOOLEAN : TreeSearch(progress)
    \/ TSLoopTest
    \/ TSSelect
    \/ TSPromising
    \/ TSIfChild
    \/ TSBackprop
    \/ TSCheckFirst
    \/ TSNext
    \/ TSClose
    \/ TSFinish
    \/ TSAbort

Spec == Init /\ [][Next]_vars

\* The search loop alone, from every budget setting.
SearchNext ==
    \/ \E mol \in Targets : SetTarget(mol)
    \/ \E progress \in BOOLEAN : TreeSearch(progress)
    \/ TSLoopTest
    \/ TSSelect
    \/ TSPromising
    \/ TSIfChild
    \/ TSBackprop
    \/ TSCheckFirst
    \/ TSNext
    \/ TSClose
    \/ TSFinish
    \/ TSAbort

SearchSpec == SearchInit /\ [][SearchNext]_vars

-----------------------------------------------------------------------------
(* Properties of the search loop, checked under SearchSpec *)

\* The positions inside an iteration of the loop of lines 193-211.
IterationPcs ==
    {"select", "promising", "if_child", "backprop", "check_first", "next"}

SearchReturned == pc = "idle" /\ last = Call("tree_search", "ok")

\* C1: search_stats["iterations"] never exceeds config.iteration_limit (and is
\* 0 when the limit is not positive), whatever the tree does; an iteration
\* that is in progress is one of the first iteration_limit iterations.
C1_IterationsWithinLimit ==
    /\ search_stats.iterations <=
           (IF config.iteration_limit > 0 THEN config.iteration_limit ELSE 0)
    /\ pc \in IterationPcs =>
           /\ search_stats.iterations = i
           /\ i <= config.iteration_limit

\* C1 witness: a search has returned after using up a limit of two or more
\* iterations.
C1_Witness ==
    /\ SearchReturned
    /\ config.iteration_limit >= 2
    /\ search_stats.iterations = config.iteration_limit

\* C2: with return_first, the iteration whose backpropagated leaf is solved is
\* the last one: the loop is left by the break with returned_first set and
\* that iteration counted, and no iteration goes on past a solved leaf; nothing
\* else sets returned_first, and without return_first it stays false.
C2_ReturnFirst ==
    /\ pc = "exit_break" =>
           /\ config.return_first /\ leaf.solved
           /\ search_stats.returned_first
           /\ search_stats.iterations = i
    /\ pc = "next" => ~(config.return_first /\ leaf.solved)
    /\ pc \in IterationPcs \cup {"loop_test", "exit_cond"} =>
           ~search_stats.returned_first
    /\ ~config.return_first => ~search_stats.returned_first

\* C2 witness: the early return happens in the second iteration, after a first
\* iteration that was not solved.
C2_Witness ==
    /\ pc = "exit_break"
    /\ i = 2
    /\ search_stats.returned_first

\* C3: once promising_child() has returned no child, the descent has stopped:
\* promising_child() is not asked again and the iteration goes on to the
\* backpropagation of that leaf.
C3_DescentStopsWithoutChild ==
    [][(pc = "if_child" /\ child.kind = "none") => (pc' # "promising")]_vars

\* The three exit conditions of the loop, on the loop's own variables.
TimeExhausted == time_past >= config.time_limit
IterationsExhausted == i > config.iteration_limit
EarlyReturn == pc = "exit_break"

\* C7 as stated: when the loop is left exactly one of the three exit
\* conditions holds, and returned_first tells the early return.
C7_ExactlyOneExit ==
    pc \in ExitPcs =>
        /\ \/ TimeExhausted /\ ~IterationsExhausted /\ ~EarlyReturn
           \/ ~TimeExhausted /\ IterationsExhausted /\ ~EarlyReturn
           \/ ~TimeExhausted /\ ~IterationsExhausted /\ EarlyReturn
        /\ search_stats.returned_first <=> EarlyReturn

\* C7 amended: when the loop is left at least one of the three exit conditions
\* holds; the early return excludes the other two, while the time and the
\* iteration budget may be exhausted together; returned_first is true exactly
\* on the early return.
C7_AtLeastOneExit ==
    pc \in ExitPcs =>
        /\ TimeExhausted \/ IterationsExhausted \/ EarlyReturn
        /\ EarlyReturn => ~TimeExhausted /\ ~IterationsExhausted
        /\ search_stats.returned_first <=> EarlyReturn

\* C7 witness: the loop is left with the time and the iteration budget both
\* exhausted, after at least one iteration.
C7_Witness ==
    /\ pc = "exit_cond"
    /\ TimeExhausted /\ IterationsExhausted
    /\ search_stats.iterations >= 1

\* C8: the time recorded in search_stats["time"] when tree_search returns is at
\* least the time that had elapsed when the loop was left.
C8_TimeRecordedAtExit ==
    [][(pc \in ExitPcs /\ "time" \in search_stats'.keys) =>
           (search_stats'.time >= elapsed)]_vars

\* C9: with time_limit = 0 no iteration is ever started: no leaf is selected,
\* iterations stays 0 and returned_first stays false.
C9_ZeroTimeLimit ==
    config.time_limit = 0 =>
        /\ pc \notin IterationPcs \cup {"exit_break"}
        /\ leaf = NoLeaf
        /\ search_stats.iterations = 0
        /\ ~search_stats.returned_first

\* C9 witness: a search with time_limit = 0, a positive iteration limit and
\* return_first set has returned.
C9_Witness ==
    /\ SearchReturned
    /\ config.time_limit = 0
    /\ config.iteration_limit >= 1
    /\ config.return_first
    /\ "time" \in search_stats.keys

-----------------------------------------------------------------------------
(* Properties of the controller's life cycle, checked under Spec *)

\* C4: assigning a new target clears tree, analysis and routes together: after
\* the assignment no analysis and no routes built from the tree of the
\* previous target are held.
C4_TargetClearsResults ==
    [][(pc = "idle" /\ last'.op = "set_target" /\ target' # target) =>
           (/\ tree' = NoTree
            /\ analysis'.of # "old"
            /\ routes'.of # "old")]_vars

\* The requests that lack exactly the key time_limit.
LackTimeLimit == { r \in Requests : "time_limit" \notin r.keys }

\* C5: run_from_json on a request without time_limit raises the missing-key
\* error with no tree constructed and with the stock, expansion-policy and
\* filter-policy selections as they were before the call.
C5_MissingTimeLimitNoEffect ==
    [][\A r \in LackTimeLimit :
           pc = "idle" /\ RunFromJson(r) =>
               /\ last'.outcome = "KeyError"
               /\ tree' = NoTree
               /\ UNCHANGED selections]_vars

\* The requests that lack a required key: one of the keys read with
\* params[...], or both of policy and policies.
LackRequired ==
    { r \in Requests :
        \/ ~(CoreKeys \subseteq r.keys)
        \/ r.keys \cap {"policy", "policies"} = {} }

\* C6: run_from_json on a request that lacks a required key raises the
\* missing-key error; no default stands in for the absent value.
C6_MissingKeyRaises ==
    [][\A r \in LackRequired :
           pc = "idle" /\ RunFromJson(r) => last'.outcome = "KeyError"]_vars

\* C10: a tree the controller holds is rooted at the current target, at every
\* moment and in particular while tree_search runs.
C10_TreeRootedAtTarget ==
    /\ tree # NoTree => tree.root = target
    /\ pc # "idle" => tree # NoTree

\* C10 witness: a second target has just been assigned while the controller
\* held the tree prepared for the first one (the exclusion made by that
\* prepare_tree is still in place), and the tree is gone.
C10_Witness ==
    /\ last = Call("set_target", "ok")
    /\ target = "CCN"
    /\ stock_exclusion = {"CCO"}
    /\ tree = NoTree

\* A step in which a prepare_tree call of the user returns.
PrepareReturns == pc = "idle" /\ last' = Call("prepare_tree", "ok")

\* C11: when prepare_tree returns, whatever the state before, the controller
\* holds a new tree rooted at the current target, the configuration the tree
\* refers to is the controller's own (untouched by the call), and analysis and
\* routes are None.
C11_PrepareGivesFreshTree ==
    [][PrepareReturns =>
           (/\ target' = target /\ target' # None
            /\ tree' = [root |-> target']
            /\ config' = config
            /\ analysis' = [built |-> FALSE, of |-> "none"]
            /\ routes' = [built |-> FALSE, of |-> "none"])]_vars

\* C11 witness: prepare_tree has returned on a controller that had completed
\* a run_from_json (so held a tree, an analysis and routes for "CCO") and was
\* then given another target.
C11_Witness ==
    /\ last = Call("prepare_tree", "ok")
    /\ response.smiles = "CCO"
    /\ target = "CCN"
    /\ tree = [root |-> "CCN"]
    /\ analysis = NoAnalysis /\ routes = NoRoutes

\* C12: after prepare_tree the exclusion list is {target} when
\* exclude_target_from_stock is set and the target is in one of the selected
\* stocks, and empty otherwise, whatever it held before.
C12_ExclusionAfterPrepare ==
    [][PrepareReturns =>
           stock_exclusion' =
               IF /\ config.exclude_target_from_stock
                  /\ \E k \in 1..Len(stock_selection) :
                         target \in StockContents(stock_selection[k])
               THEN {target}
               ELSE {}]_vars

\* C12 witness: prepare_tree has returned with an empty exclusion list for a
\* target that is not in stock, on a controller whose last run_from_json had
\* excluded its target "CCO" from the stock "zinc".
C12_Witness ==
    /\ last = Call("prepare_tree", "ok")
    /\ response.smiles = "CCO" /\ response.exclude_target_from_stock
    /\ response.stocks = << "zinc" >>
    /\ target = "CCN"
    /\ stock_exclusion = {}

\* C13: a prepare_tree call that directly follows a prepare_tree call (same
\* target, same stock selection, same configuration) leaves the exclusion
\* list as the first call left it.
C13_PrepareTwiceSameExclusion ==
    [][(PrepareReturns /\ last = Call("prepare_tree", "ok")) =>
           stock_exclusion' = stock_exclusion]_vars

\* C13 witness: two prepare_tree calls in a row have returned for a target
\* that is in the selected stock, and the target is excluded.
C13_Witness ==
    /\ prepares = 2
    /\ target = "CCO"
    /\ stock_selection = << "zinc" >>
    /\ stock_exclusion = {"CCO"}

\* A step in which run_from_json returns its response.
ResponseReturned == pc = "rfj_build" /\ last'.outcome = "ok"

\* C14: the "request" record of a response holds the key "policy" with the
\* one selected name, and no key "policies", when exactly one expansion policy
\* is selected; with two or more selected it holds "policies" with the whole
\* selection in order, and no key "policy".
C14_PolicyKeyByCount ==
    [][ResponseReturned =>
           (/\ Len(expansion_selection) = 1 =>
                   /\ "policy" \in response'.keys
                   /\ "policies" \notin response'.keys
                   /\ response'.policy = expansion_selection[1]
            /\ Len(expansion_selection) >= 2 =>
                   /\ "policies" \in response'.keys
                   /\ "policy" \notin response'.keys
                   /\ response'.policies = expansion_selection)]_vars

\* C14 witness: a response has been returned for a request that selected two
\* expansion policies.
C14_Witness ==
    /\ last = Call("run_from_json", "ok")
    /\ "policies" \in response.keys /\ "policy" \notin response.keys
    /\ response.policies = << "uspto", "ringbreaker" >>

\* A run_from_json call has just returned (a first run, or a replay).
JustReturned ==
    /\ pc = "idle"
    /\ last \in {Call("run_from_json", "ok"), Call("replay", "ok")}

\* C15: replaying the "request" record of a response right after it was
\* returned resolves to the configuration, the target and the stock, expansion
\* and filter selections of the run that returned it; a replay of a record
\* that names known policies does not fail to resolve; and the response of a
\* replay holds the same "request" record as the response replayed.
C15_ReplayRoundTrip ==
    [][/\ (JustReturned /\ caller' = "replay") =>
              (/\ config' = config
               /\ target' = target
               /\ stock_selection' = stock_selection
               /\ expansion_selection' = expansion_selection
               /\ filter_selection' = filter_selection)
       /\ (JustReturned /\ last'.op = "replay"
               /\ \A k \in 1..Len(expansion_selection) :
                      expansion_selection[k] \in PolicyNames) =>
              last'.outcome = "running"
       /\ (ResponseReturned /\ caller = "replay") => response' = response]_vars

\* C15 witness: the replay of a response has returned, for a request with a
\* filter and two expansion policies.
C15_Witness ==
    /\ last = Call("replay", "ok")
    /\ {"filter", "policies"} \subseteq response.keys
    /\ filter_selection = << "quick" >>
    /\ Len(expansion_selection) = 2

\* C16: extract_statistics returns the empty mapping, and does not raise,
\* whenever build_routes has not been called since the last prepare_tree (or
\* since construction): the call returns {} when there is no analysis, every
\* prepare_tree (the user's, or the one made by tree_search) leaves no
\* analysis, and only build_routes makes one.
C16_NoAnalysisGivesEmpty ==
    [][/\ (pc = "idle" /\ last'.op = "extract_statistics" /\ ~analysis.built)
              => last'.outcome = "empty"
       /\ (PrepareReturns \/ (tree = NoTree /\ tree' # NoTree))
              => ~analysis'.built
       /\ (~analysis.built /\ analysis'.built) =>
              \/ pc = "idle" /\ last'.op = "build_routes"
              \/ pc = "rfj_build"]_vars

\* C16 witness: extract_statistics has returned {} on a controller that has a
\* tree and the statistics of a completed tree_search, and no analysis.
C16_Witness ==
    /\ last = Call("extract_statistics", "empty")
    /\ tree # NoTree
    /\ "time" \in search_stats.keys
    /\ analysis = NoAnalysis /\ routes = NoRoutes

\* C17: build_routes called while the controller holds no tree fails with an
\* error and leaves analysis and routes as they were.
C17_BuildWithoutTreeFails ==
    [][(pc = "idle" /\ last'.op = "build_routes" /\ tree = NoTree) =>
           (/\ last'.outcome = "error"
            /\ analysis' = analysis
            /\ routes' = routes)]_vars

-----------------------------------------------------------------------------
(* Further properties of the search loop, checked under SearchSpec *)

\* A step in which tree_search returns (lines 215-217).
SearchReturns == pc \in ExitPcs /\ "time" \in search_stats'.keys

\* C18: with show_progress the progress bar is made with total =
\* iteration_limit and has been advanced once for each iteration counted, at
\* every point of the search; and when tree_search returns, from the loop
\* condition or from the break, the bar has been closed and its count is
\* search_stats["iterations"].
C18_ProgressBar ==
    [][/\ show_progress' =>
              /\ pbar'.made
              /\ pbar'.total = config'.iteration_limit
              /\ pbar'.n = search_stats'.iterations
       /\ (SearchReturns /\ show_progress) =>
              /\ pbar.closed
              /\ pbar.n = search_stats'.iterations]_vars

\* C18 witness: a search with show_progress has left the loop by the early
\* return in its second iteration and the bar, advanced twice, is closed.
C18_Witness ==
    /\ pc = "exit_break"
    /\ show_progress /\ pbar.closed
    /\ pbar.n = 2 /\ pbar.total = config.iteration_limit

\* The number of backpropagations (line 205) completed so far in the running
\* search: one in each finished iteration, and one in the current iteration
\* once line 205 is behind.
Backpropagations ==
    IF pc \in {"check_first", "next", "exit_break"} THEN i ELSE i - 1

\* C20: at every point of a running search search_stats["iterations"] is the
\* number of backpropagations completed so far, and when a call into the tree
\* aborts the search the counter is left at that number.
C20_CountedAfterBackpropagation ==
    [][/\ pc # "idle" => search_stats.iterations = Backpropagations
       /\ (pc \in TreeCallPcs /\ pc' = "idle") =>
              search_stats'.iterations = Backpropagations]_vars

-----------------------------------------------------------------------------
(* Further properties of the life cycle, checked under Spec *)

\* C19: whenever the controller holds an analysis of its tree,
\* search_stats holds a "time" entry and extract_statistics returns the
\* statistics.
C19_AnalysisImpliesTime ==
    (analysis.built /\ analysis.of = "current") =>
        /\ "time" \in search_stats.keys
        /\ StatisticsResult = "stats"

====
